---- MODULE Spec2Model ----
(***************************************************************************)
(* Model of ext/lv2/gstlv2.c: the bridge that turns every installed LV2    *)
(* plugin into a GStreamer signal-processor element.                       *)
(*                                                                         *)
(*   Spec       one element instance: setup/start/stop/cleanup/process and *)
(*              the property accessors, against the plugin instantiations  *)
(*              the bridge creates (the slv2 side).                        *)
(*   SpecClass  gst_lv2_base_init + gst_lv2_class_init over every plugin   *)
(*              port list up to MaxPorts ports.                            *)
(*   SpecParam  gst_lv2_class_get_param_spec over every declared range.    *)
(*   SpecDisc   lv2_plugin_discover over every list of plugin URIs.        *)
(*                                                                         *)
(* Numbers that are gfloat in the source are kept in fixed point, in units *)
(* of 1/Scale, so that fractional values exist and the float -> gint       *)
(* conversions of the source are real conversions.                         *)
(***************************************************************************)
EXTENDS Integers, Sequences, FiniteSets, TLC

VARIABLES
  mode,         \* which part of the bridge this behaviour exercises
  plugin,       \* the SLV2Plugin of the class: its declared ports and groups
  klass,        \* GstLV2Class + GstSignalProcessorClass fields after class construction
  instance,     \* GstLV2.instance: 0 is NULL, otherwise the id of an instantiation
  activated,    \* GstLV2.activated
  control_in,   \* GstSignalProcessor.control_in[]
  control_out,  \* GstSignalProcessor.control_out[]
  insts,        \* slv2 side: every instantiation ever created, by id
  last,         \* the handler called last, its argument and the GValue it was
                \* given (set_property) or filled in (get_property)
  ret,          \* what that handler returned
  calls,        \* the slv2 calls that handler made, in order
  crashed,      \* the process died on a NULL dereference
  pspec,        \* the GParamSpec gst_lv2_class_get_param_spec built last
  uris,         \* slv2_world_get_all_plugins: the URI of each plugin, in scan order
  disc_i,       \* loop index of lv2_plugin_discover
  types,        \* GType registry: registered type names with their class_data
  elements,     \* gst_element_register: registered element names
  visits        \* how often each plugin of the list was visited by the scan

vars == <<mode, plugin, klass, instance, activated, control_in, control_out,
          insts, last, ret, calls, crashed, pspec, uris, disc_i, types,
          elements, visits>>

lifeVars  == <<instance, activated, control_in, control_out, insts, last, ret, calls>>
discVars  == <<uris, disc_i, types, elements, visits>>

----------------------------------------------------------------------------
(* Bounds of the model *)

MaxPorts   == 3   \* ports per plugin in SpecClass
MaxInst    == 2   \* successful instantiations per behaviour
MaxFrames  == 2   \* nframes of a process call
MaxPlugins == 3   \* plugins found by one discovery scan
MaxUriLen  == 1   \* characters per plugin URI
MaxProcPorts == 4 \* ports per plugin in SpecProc
MaxRange   == 3   \* declared range values lie in -MaxRange..MaxRange (units of 1/Scale)

Scale == 2        \* fixed-point denominator of the gfloat values

----------------------------------------------------------------------------
(* Small helpers *)

None == <<>>
Some(v) == <<v>>
IsSome(o) == Len(o) > 0
Opt(S) == {None} \cup {Some(v) : v \in S}

Min2(a, b) == IF a < b THEN a ELSE b

RECURSIVE Concat(_)
Concat(ss) == IF ss = <<>> THEN <<>> ELSE Head(ss) \o Concat(Tail(ss))

(* (gint) f for a gfloat f: truncation toward zero, result still in 1/Scale units *)
FloatToInt(f) == IF f >= 0 THEN (f \div Scale) * Scale ELSE -(((-f) \div Scale) * Scale)

----------------------------------------------------------------------------
(* The plugin as slv2 presents it *)

Groups   == {1, 2}                    \* group URIs a port may name with pg:inGroup
GName(g) == IF g = 1 THEN "in" ELSE "out"

(* A port: direction class, port class, pg:inGroup value (0: none), lv2:symbol,
   lv2:toggled, lv2:integer and the declared default/minimum/maximum. *)
Port(d, k, g, s, t, n, df, mn, mx) ==
  [dir |-> d, kind |-> k, group |-> g, symbol |-> s, toggled |-> t,
   integer |-> n, def |-> df, min |-> mn, max |-> mx]

PlainPort(d, k, g, s) == Port(d, k, g, s, FALSE, FALSE, None, None, None)

(* slv2_plugin_get_num_ports *)
NumPorts(p) == Len(p.ports)

(* slv2_plugin_get_port_by_index: port indices are 0-based *)
PortAt(p, index) == p.ports[index + 1]

----------------------------------------------------------------------------
(* gst_lv2_class_find_group: position of the group with this uri, 0 if none *)
FindGroup_never(groups, uri) == 0
FindGroup(groups, uri) ==
  IF \E i \in 1..Len(groups) : groups[i].uri = uri
  THEN CHOOSE i \in 1..Len(groups) :
         groups[i].uri = uri /\ \A k \in 1..(i - 1) : groups[k].uri # uri
  ELSE 0

(* State of the classification loop of gst_lv2_base_init before any port *)
ClassifyInit ==
  [in_groups |-> <<>>, out_groups |-> <<>>,
   audio_in_ports |-> <<>>, audio_out_ports |-> <<>>,
   control_in_ports |-> <<>>, control_out_ports |-> <<>>,
   in_pad_index |-> 0, out_pad_index |-> 0]

(* The "unknown port type" branch of the loop: continue with the next port *)
UnknownPort_takesPad(st, is_input) ==
  IF is_input THEN [st EXCEPT !.in_pad_index = @ + 1]
              ELSE [st EXCEPT !.out_pad_index = @ + 1]
UnknownPort(st, is_input) == st

(* One iteration of the "find ports and groups" loop, for port index j *)
ClassifyPort(st, p, j) ==
  LET port     == PortAt(p, j)
      is_input == port.dir = "in"
      desc     == [index |-> j, pad |-> 0]
      padIdx   == IF is_input THEN st.in_pad_index ELSE st.out_pad_index
      bumped   == IF is_input
                  THEN [st EXCEPT !.in_pad_index = @ + 1]
                  ELSE [st EXCEPT !.out_pad_index = @ + 1]
  IN
  IF port.group # 0
  THEN \* port is part of a group
    LET groups == IF is_input THEN st.in_groups ELSE st.out_groups
        found  == FindGroup(groups, port.group)
        g      == [uri |-> port.group, pad |-> padIdx, ports |-> <<>>,
                   symbol |-> p.gsym[port.group]]
        st1    == IF found = 0 THEN bumped ELSE st
        grps1  == IF found = 0 THEN Append(groups, g) ELSE groups
        at     == IF found = 0 THEN Len(grps1) ELSE found
        grps2  == [grps1 EXCEPT ![at].ports = Append(@, desc)]
    IN  IF is_input THEN [st1 EXCEPT !.in_groups = grps2]
                    ELSE [st1 EXCEPT !.out_groups = grps2]
  ELSE \* port is not part of a group
    IF port.kind = "audio"
    THEN LET d == [desc EXCEPT !.pad = padIdx]
         IN  IF is_input THEN [bumped EXCEPT !.audio_in_ports = Append(@, d)]
                         ELSE [bumped EXCEPT !.audio_out_ports = Append(@, d)]
    ELSE IF port.kind = "control"
    THEN IF is_input THEN [st EXCEPT !.control_in_ports = Append(@, desc)]
                     ELSE [st EXCEPT !.control_out_ports = Append(@, desc)]
    ELSE UnknownPort(st, is_input)

(* The whole loop: ports 0 .. n-1 in index order *)
RECURSIVE Classify(_, _)
Classify(p, n) ==
  IF n = 0 THEN ClassifyInit ELSE ClassifyPort(Classify(p, n - 1), p, n - 1)

(* gst_signal_processor_class_add_pad_template calls of gst_lv2_base_init, in order *)
PadTemplates(p, st) ==
     [j \in 1..Len(st.in_groups) |->
        [name |-> st.in_groups[j].symbol, direction |-> "SINK",
         index |-> j - 1, channels |-> Len(st.in_groups[j].ports)]]
  \o [j \in 1..Len(st.out_groups) |->
        [name |-> st.out_groups[j].symbol, direction |-> "SRC",
         index |-> j - 1, channels |-> Len(st.out_groups[j].ports)]]
  \o [j \in 1..Len(st.audio_in_ports) |->
        [name |-> Some(PortAt(p, st.audio_in_ports[j].index).symbol),
         direction |-> "SINK", index |-> j - 1, channels |-> 1]]
  \o [j \in 1..Len(st.audio_out_ports) |->
        [name |-> Some(PortAt(p, st.audio_out_ports[j].index).symbol),
         direction |-> "SINK", index |-> j - 1, channels |-> 1]]

(* klass_tags of gst_lv2_base_init *)
KlassTags(num_audio_in, num_audio_out, num_control_out) ==
  IF num_audio_in = 0 THEN "Source/Audio/LV2"
  ELSE IF num_audio_out = 0
       THEN IF num_control_out = 0 THEN "Sink/Audio/LV2"
            ELSE "Sink/Analyzer/Audio/LV2"
       ELSE "Filter/Effect/Audio/LV2"

(* slv2_value_as_string (group->symbol) reads through group->symbol, which is
   NULL for a group without a declared symbol *)
BaseInitDerefsNull(p) ==
  LET st == Classify(p, NumPorts(p))
      all == st.in_groups \o st.out_groups
  IN  \E j \in 1..Len(all) : ~IsSome(all[j].symbol)

(* gst_lv2_base_init: the class fields it leaves behind *)
BaseInit(p) ==
  LET st == Classify(p, NumPorts(p))
  IN  [in_groups         |-> st.in_groups,
       out_groups        |-> st.out_groups,
       audio_in_ports    |-> st.audio_in_ports,
       audio_out_ports   |-> st.audio_out_ports,
       control_in_ports  |-> st.control_in_ports,
       control_out_ports |-> st.control_out_ports,
       num_group_in      |-> Len(st.in_groups),
       num_group_out     |-> Len(st.out_groups),
       num_audio_in      |-> Len(st.audio_in_ports),
       num_audio_out     |-> Len(st.audio_out_ports),
       num_control_in    |-> Len(st.control_in_ports),
       num_control_out   |-> Len(st.control_out_ports),
       pad_templates     |-> PadTemplates(p, st),
       klass_tags        |-> KlassTags(Len(st.audio_in_ports),
                                       Len(st.audio_out_ports),
                                       Len(st.control_out_ports)),
       properties        |-> <<>>,
       stage             |-> "base_init"]

(* The class before gst_lv2_base_init ran *)
NoClass ==
  [in_groups |-> <<>>, out_groups |-> <<>>, audio_in_ports |-> <<>>,
   audio_out_ports |-> <<>>, control_in_ports |-> <<>>,
   control_out_ports |-> <<>>, num_group_in |-> 0, num_group_out |-> 0,
   num_audio_in |-> 0, num_audio_out |-> 0, num_control_in |-> 0,
   num_control_out |-> 0, pad_templates |-> <<>>, klass_tags |-> "",
   properties |-> <<>>, stage |-> "none"]

----------------------------------------------------------------------------
(* Parameter specs *)

(* gst_lv2_class_get_param_name *)
GetParamName(p, portnum) == PortAt(p, portnum).symbol

(* The range of gst_lv2_class_get_param_spec after the declared values are
   read and the bounds are widened to hold the default *)
WidenedRange_clampsDefault(port) ==
  LET def0   == IF IsSome(port.def) THEN port.def[1] ELSE 0
      lower  == IF IsSome(port.min) THEN port.min[1] ELSE 0
      upper  == IF IsSome(port.max) THEN port.max[1] ELSE 1 * Scale
      def    == IF def0 < lower THEN lower ELSE IF def0 > upper THEN upper ELSE def0
  IN  [lower |-> lower, upper |-> upper, def |-> def]
WidenedRange(port) ==
  LET def    == IF IsSome(port.def) THEN port.def[1] ELSE 0
      lower0 == IF IsSome(port.min) THEN port.min[1] ELSE 0
      upper0 == IF IsSome(port.max) THEN port.max[1] ELSE 1 * Scale
      lower  == IF def < lower0 THEN def ELSE lower0
      upper  == IF def > upper0 THEN def ELSE upper0
  IN  [lower |-> lower, upper |-> upper, def |-> def]

(* gst_lv2_class_get_param_spec *)
GetParamSpec(p, portnum) ==
  LET port  == PortAt(p, portnum)
      name  == GetParamName(p, portnum)
      wr    == port.dir = "in"
      ctl   == port.kind = "control"
      r     == WidenedRange(port)
  IN
  IF port.toggled
  THEN [name |-> name, value_type |-> "G_TYPE_BOOLEAN", minimum |-> 0,
        maximum |-> 0, default |-> 0, writable |-> wr, controllable |-> ctl]
  ELSE IF port.integer
  THEN [name |-> name, value_type |-> "G_TYPE_INT",
        minimum |-> FloatToInt(r.lower), maximum |-> FloatToInt(r.upper),
        default |-> FloatToInt(r.def), writable |-> wr, controllable |-> ctl]
  ELSE [name |-> name, value_type |-> "G_TYPE_FLOAT",
        minimum |-> r.lower, maximum |-> r.upper,
        default |-> r.def, writable |-> wr, controllable |-> ctl]

(* gst_lv2_class_init: property id i (1-based) is properties[i] *)
ClassInit(k, p) ==
  [k EXCEPT
     !.properties =
          [i \in 1..k.num_control_in |->
             GetParamSpec(p, k.control_in_ports[i].index)]
       \o [i \in 1..k.num_control_out |->
             GetParamSpec(p, k.control_out_ports[i].index)],
     !.stage = "class_init"]

----------------------------------------------------------------------------
(* The element instance *)

(* prop_id-- on a guint: 0 wraps to G_MAXUINT.  G_MAXUINT (4294967295) is
   beyond the integers TLC computes with; the largest one it has stands for
   it, which like G_MAXUINT exceeds every array length. *)
WrappedGuint == 2147483647
GuintDec_noWrap(n) == n - 1
GuintDec(n) == IF n = 0 THEN WrappedGuint ELSE n - 1

IntVals    == {-1, 2}                    \* gint property values
FloatVals  == {-1, 3}                    \* gfloat property values, in 1/Scale
OutVals    == {0, 3}                     \* what a plugin's run writes to a control output
SampleRates == {44100}

(* what gst_lv2_set_property stores for a value of each GType *)
SetValue(value_type, value) ==
  IF value_type = "G_TYPE_BOOLEAN" THEN (IF value THEN 0 ELSE 1 * Scale)
  ELSE IF value_type = "G_TYPE_INT" THEN value * Scale
  ELSE value

(* G_MININT and G_MAXINT *)
GMaxInt == 2147483647
GMinInt == -GMaxInt - 1

(* CLAMP of glib *)
Clamp(x, low, high) == IF x > high THEN high ELSE IF x < low THEN low ELSE x

(* what gst_lv2_get_property puts into the GValue for a control value of
   each GType; the gfloat -> gint conversion truncates toward zero *)
GetValue(value_type, control) ==
  IF value_type = "G_TYPE_BOOLEAN" THEN control > 0
  ELSE IF value_type = "G_TYPE_INT"
       THEN Clamp(FloatToInt(control) \div Scale, GMinInt, GMaxInt)
  ELSE control

(* the values a GValue of each GType can hold *)
ValuesOf(value_type) ==
  IF value_type = "G_TYPE_BOOLEAN" THEN BOOLEAN
  ELSE IF value_type = "G_TYPE_INT" THEN IntVals
  ELSE FloatVals

(* the GValue holding a param spec's default *)
DefaultValue(ps) ==
  IF ps.value_type = "G_TYPE_BOOLEAN" THEN FALSE
  ELSE IF ps.value_type = "G_TYPE_INT" THEN ps.default \div Scale
  ELSE ps.default

NoTarget == <<"none", 0, 0>>
Call(op, inst, port, to) == [op |-> op, inst |-> inst, port |-> port, to |-> to]

(* slv2_instance_connect_port calls of gst_lv2_setup, in order *)
SetupConnects(k, inst) ==
     [i \in 1..k.num_control_in |->
        Call("connect_port", inst, k.control_in_ports[i].index,
             <<"control_in", i - 1, 0>>)]
  \o [i \in 1..k.num_control_out |->
        Call("connect_port", inst, k.control_out_ports[i].index,
             <<"control_out", i - 1, 0>>)]

(* slv2_instance_connect_port calls of one group loop of gst_lv2_process *)
GroupConnects_offsetByPosition(groups, bucket, inst, nframes) ==
  Concat([i \in 1..Len(groups) |->
            [j \in 1..Len(groups[i].ports) |->
               Call("connect_port", inst, groups[i].ports[j].index,
                    <<bucket, i - 1, j - 1>>)]])
GroupConnects(groups, bucket, inst, nframes) ==
  Concat([i \in 1..Len(groups) |->
            [j \in 1..Len(groups[i].ports) |->
               Call("connect_port", inst, groups[i].ports[j].index,
                    <<bucket, i - 1, (j - 1) * nframes>>)]])

(* slv2_instance_connect_port calls of one flat loop of gst_lv2_process *)
AudioConnects(ports, bucket, inst) ==
  [i \in 1..Len(ports) |->
     Call("connect_port", inst, ports[i].index, <<bucket, i - 1, 0>>)]

(* all slv2 calls of gst_lv2_process, in order *)
ProcessCalls_outputsFirst(k, inst, nframes) ==
     GroupConnects(k.out_groups, "group_out", inst, nframes)
  \o AudioConnects(k.audio_out_ports, "audio_out", inst)
  \o GroupConnects(k.in_groups, "group_in", inst, nframes)
  \o AudioConnects(k.audio_in_ports, "audio_in", inst)
  \o <<Call("run", inst, nframes, NoTarget)>>
ProcessCalls(k, inst, nframes) ==
     GroupConnects(k.in_groups, "group_in", inst, nframes)
  \o AudioConnects(k.audio_in_ports, "audio_in", inst)
  \o GroupConnects(k.out_groups, "group_out", inst, nframes)
  \o AudioConnects(k.audio_out_ports, "audio_out", inst)
  \o <<Call("run", inst, nframes, NoTarget)>>

(* the port bindings of an instantiation after a sequence of slv2 calls *)
RECURSIVE ApplyConnects(_, _)
ApplyConnects(conn, cs) ==
  IF cs = <<>> THEN conn
  ELSE ApplyConnects(
         IF Head(cs).op = "connect_port"
         THEN [conn EXCEPT ![Head(cs).port] = Head(cs).to] ELSE conn,
         Tail(cs))

----------------------------------------------------------------------------
(* Plugins the element instance is exercised with *)

StereoPlugin ==
  [ports |-> << PlainPort("in",  "audio", 1, "il"),
                PlainPort("in",  "audio", 1, "ir"),
                PlainPort("out", "audio", 2, "ol"),
                PlainPort("out", "audio", 2, "or"),
                Port("in", "control", 0, "gain", FALSE, FALSE,
                     Some(1 * Scale), Some(0), Some(2 * Scale)),
                PlainPort("out", "control", 0, "level") >>,
   gsym  |-> [g \in Groups |-> Some(GName(g))]]

FlatPlugin ==
  [ports |-> << PlainPort("in",  "audio", 0, "in"),
                Port("in", "control", 0, "mute", TRUE, FALSE, None, None, None),
                PlainPort("out", "audio", 0, "out"),
                Port("in", "control", 0, "steps", FALSE, TRUE,
                     Some(1 * Scale), Some(0), Some(2 * Scale)) >>,
   gsym  |-> [g \in Groups |-> Some(GName(g))]]

LifePlugins == {StereoPlugin, FlatPlugin}

NoPlugin == [ports |-> <<>>, gsym |-> [g \in Groups |-> None]]
NoPspec  == [name |-> "", value_type |-> "", minimum |-> 0, maximum |-> 0,
             default |-> 0, writable |-> FALSE, controllable |-> FALSE]
NoLast   == [op |-> "none", arg |-> 0, value |-> None]

(* variables a behaviour of another part of the bridge leaves at rest *)
LifeIdle ==
  /\ instance = 0 /\ activated = FALSE
  /\ control_in = <<>> /\ control_out = <<>>
  /\ insts = <<>> /\ last = NoLast /\ ret = "none" /\ calls = <<>>
DiscIdle ==
  /\ uris = <<>> /\ disc_i = 0 /\ types = <<>> /\ elements = {} /\ visits = <<>>

----------------------------------------------------------------------------
(* Spec: one element instance *)

(* gst_lv2_init, then GObject construction setting every G_PARAM_CONSTRUCT
   property to its default through gst_lv2_set_property; the control arrays
   of GstSignalProcessor start zeroed *)
Init ==
  /\ mode = "life"
  /\ plugin \in LifePlugins
  /\ klass = ClassInit(BaseInit(plugin), plugin)
  /\ instance = 0
  /\ activated = FALSE
  /\ control_in = [i \in 1..klass.num_control_in |->
                     SetValue(klass.properties[i].value_type,
                              DefaultValue(klass.properties[i]))]
  /\ control_out = [i \in 1..klass.num_control_out |-> 0]
  /\ insts = <<>>
  /\ last = NoLast /\ ret = "none" /\ calls = <<>>
  /\ crashed = FALSE
  /\ pspec = NoPspec
  /\ DiscIdle

Alive == mode = "life" /\ ~crashed

(* a handler that returns from a failed g_return_if_fail / g_return_val_if_fail *)
Rejected(op, arg, r) ==
  /\ last' = [op |-> op, arg |-> arg, value |-> None]
  /\ ret' = r
  /\ calls' = <<>>
  /\ UNCHANGED <<mode, plugin, klass, instance, activated, control_in,
                 control_out, insts, crashed, pspec, discVars>>

(* the port bindings of an instantiation nothing is connected to *)
Unbound == [q \in 0..(NumPorts(plugin) - 1) |-> NoTarget]

(* the g_return_val_if_fail at the head of gst_lv2_setup *)
SetupPrecond == activated = FALSE

(* what gst_lv2_setup returns for the result of slv2_plugin_instantiate *)
SetupReturn_alwaysTrue(result) == "TRUE"
SetupReturn(result) == IF result # 0 THEN "TRUE" ELSE "FALSE"

(* gst_lv2_setup *)
gst_lv2_setup(sample_rate, result) ==
  /\ Alive
  /\ IF ~SetupPrecond
     THEN Rejected("setup", sample_rate, "FALSE")
     ELSE /\ last' = [op |-> "setup", arg |-> sample_rate, value |-> None]
          /\ instance' = result
          /\ ret' = SetupReturn(result)
          /\ IF result = 0
             THEN /\ calls' = <<Call("instantiate", 0, sample_rate, NoTarget)>>
                  /\ insts' = insts
             ELSE /\ calls' = <<Call("instantiate", result, sample_rate, NoTarget)>>
                                \o SetupConnects(klass, result)
                  /\ insts' = Append(insts,
                       [status |-> "inactive", activations |-> 0,
                        conn |-> ApplyConnects(Unbound,
                                                SetupConnects(klass, result))])
          /\ UNCHANGED <<mode, plugin, klass, activated, control_in,
                         control_out, crashed, pspec, discVars>>

(* slv2_plugin_instantiate: NULL, or a fresh instantiation *)
InstantiateResults == {0} \cup (IF Len(insts) < MaxInst THEN {Len(insts) + 1} ELSE {})

(* the two g_return_val_if_fail of gst_lv2_start *)
StartPrecond_noActivatedCheck == instance # 0
StartPrecond == activated = FALSE /\ instance # 0

(* gst_lv2_start *)
gst_lv2_start ==
  /\ Alive
  /\ IF ~StartPrecond
     THEN Rejected("start", 0, "FALSE")
     ELSE /\ last' = [op |-> "start", arg |-> 0, value |-> None]
          /\ calls' = <<Call("activate", instance, 0, NoTarget)>>
          /\ insts' = [insts EXCEPT ![instance].status = "active",
                                     ![instance].activations = Min2(@ + 1, 2)]
          /\ activated' = TRUE
          /\ ret' = "TRUE"
          /\ UNCHANGED <<mode, plugin, klass, instance, control_in,
                         control_out, crashed, pspec, discVars>>

(* the two g_return_if_fail of gst_lv2_stop *)
StopPrecond_noActivatedCheck == instance # 0
StopPrecond == activated = TRUE /\ instance # 0

(* gst_lv2_stop *)
gst_lv2_stop ==
  /\ Alive
  /\ IF ~StopPrecond
     THEN Rejected("stop", 0, "critical")
     ELSE /\ last' = [op |-> "stop", arg |-> 0, value |-> None]
          /\ calls' = <<Call("deactivate", instance, 0, NoTarget)>>
          /\ insts' = [insts EXCEPT ![instance].status = "inactive"]
          /\ activated' = FALSE
          /\ ret' = "void"
          /\ UNCHANGED <<mode, plugin, klass, instance, control_in,
                         control_out, crashed, pspec, discVars>>

(* the two g_return_if_fail of gst_lv2_cleanup *)
CleanupPrecond_noActivatedCheck == instance # 0
CleanupPrecond == activated = FALSE /\ instance # 0

(* gst_lv2_cleanup *)
gst_lv2_cleanup ==
  /\ Alive
  /\ IF ~CleanupPrecond
     THEN Rejected("cleanup", 0, "critical")
     ELSE /\ last' = [op |-> "cleanup", arg |-> 0, value |-> None]
          /\ calls' = <<Call("free", instance, 0, NoTarget)>>
          /\ insts' = [insts EXCEPT ![instance].status = "freed",
                                     ![instance].conn = Unbound]
          /\ instance' = 0
          /\ ret' = "void"
          /\ UNCHANGED <<mode, plugin, klass, activated, control_in,
                         control_out, crashed, pspec, discVars>>

(* gst_lv2_process; the plugin's run step may write every control output it
   was connected to.  With a NULL instance the first slv2 call dereferences
   NULL. *)
gst_lv2_process(nframes, outs) ==
  /\ Alive
  /\ last' = [op |-> "process", arg |-> nframes, value |-> None]
  /\ IF instance = 0
     THEN /\ crashed' = TRUE
          /\ ret' = "crash"
          /\ calls' = <<>>
          /\ UNCHANGED <<mode, plugin, klass, instance, activated, control_in,
                         control_out, insts, pspec, discVars>>
     ELSE /\ calls' = ProcessCalls(klass, instance, nframes)
          /\ insts' = [insts EXCEPT ![instance].conn =
                         ApplyConnects(@, ProcessCalls(klass, instance, nframes))]
          /\ control_out' = outs
          /\ ret' = "void"
          /\ UNCHANGED <<mode, plugin, klass, instance, activated, control_in,
                         crashed, pspec, discVars>>

(* gst_lv2_set_property; prop_id is a guint *)
gst_lv2_set_property(prop_id, value_type, value) ==
  /\ Alive
  /\ LET id == GuintDec(prop_id)
     IN  IF ~(id < klass.num_control_in)
         THEN Rejected("set_property", prop_id, "critical")
         ELSE /\ last' = [op |-> "set_property", arg |-> prop_id,
                           value |-> Some(value)]
              /\ control_in' = [control_in EXCEPT ![id + 1] = SetValue(value_type, value)]
              /\ ret' = "void"
              /\ calls' = <<>>
              /\ UNCHANGED <<mode, plugin, klass, instance, activated,
                             control_out, insts, crashed, pspec, discVars>>

(* gst_lv2_get_property; prop_id is a guint *)
gst_lv2_get_property(prop_id, value_type) ==
  /\ Alive
  /\ LET id == GuintDec(prop_id)
     IN  IF id < klass.num_control_in
         THEN /\ last' = [op |-> "get_property", arg |-> prop_id,
                          value |-> Some(GetValue(value_type, control_in[id + 1]))]
              /\ ret' = "void"
         ELSE IF id < klass.num_control_in + klass.num_control_out
         THEN /\ last' = [op |-> "get_property", arg |-> prop_id,
                          value |-> Some(GetValue(value_type,
                                     control_out[id - klass.num_control_in + 1]))]
              /\ ret' = "void"
         ELSE /\ last' = [op |-> "get_property", arg |-> prop_id, value |-> None]
              /\ ret' = "critical"
  /\ calls' = <<>>
  /\ UNCHANGED <<mode, plugin, klass, instance, activated, control_in,
                 control_out, insts, crashed, pspec, discVars>>

(* the GType of the param spec GObject hands to the property accessors *)
PropType(prop_id) ==
  IF prop_id \in 1..Len(klass.properties)
  THEN klass.properties[prop_id].value_type ELSE "G_TYPE_FLOAT"

Setup   == \E rate \in SampleRates : \E r \in InstantiateResults : gst_lv2_setup(rate, r)
Start   == gst_lv2_start
Stop    == gst_lv2_stop
Cleanup == gst_lv2_cleanup
Process == \E n \in 1..MaxFrames :
             \E outs \in [1..klass.num_control_out -> OutVals] :
               gst_lv2_process(n, outs)
SetProperty ==
  \E prop_id \in 0..(Len(klass.properties) + 1) :
    \E v \in ValuesOf(PropType(prop_id)) :
      gst_lv2_set_property(prop_id, PropType(prop_id), v)
GetProperty ==
  \E prop_id \in 0..(Len(klass.properties) + 1) :
    gst_lv2_get_property(prop_id, PropType(prop_id))

Next == Setup \/ Start \/ Stop \/ Cleanup \/ Process \/ SetProperty \/ GetProperty

Spec == Init /\ [][Next]_vars

----------------------------------------------------------------------------
(* Claims about the element instance (checked under Spec) *)

HasCall(cs, op) == \E k \in 1..Len(cs) : cs[k].op = op
Configured == instance # 0

(* everything but the record of the call itself is left as it was *)
NothingChanged ==
  UNCHANGED <<instance, activated, control_in, control_out, insts, crashed>>

(* C1: a setup call made while the instance is configured (a setup succeeded
   and no cleanup ran since) returns failure, creates no new plugin
   instantiation and leaves the instance handle unchanged. *)
C1_SetupWhileConfiguredFails ==
  [][ (last'.op = "setup" /\ Configured)
        => /\ ret' = "FALSE"
           /\ ~HasCall(calls', "instantiate")
           /\ Len(insts') = Len(insts)
           /\ instance' = instance ]_vars

(* C2: a process call made while the instance is not activated is rejected:
   it does not return normally, rebinds no buffer and does not run the
   plugin. *)
C2_ProcessOnlyWhileActivated ==
  [][ (last'.op = "process" /\ ~activated)
        => /\ ret' # "void"
           /\ ~HasCall(calls', "connect_port")
           /\ ~HasCall(calls', "run") ]_vars

(* C3: start fails when the instance is not configured or already activated,
   invoking no activation hook and changing neither the activation flag nor
   the handle; when configured and not activated it invokes the activation
   hook exactly once and sets the activation flag. *)
C3_StartContract ==
  [][ last'.op = "start"
        => IF ~Configured \/ activated
           THEN ret' = "FALSE" /\ calls' = <<>> /\ NothingChanged
           ELSE /\ ret' = "TRUE"
                /\ calls' = <<Call("activate", instance, 0, NoTarget)>>
                /\ activated' = TRUE
                /\ instance' = instance ]_vars

C3_Witness ==
  /\ last.op = "start" /\ ret = "FALSE" /\ activated /\ Configured
  /\ insts[instance].activations = 1

(* C4: cleanup fails when the instance is activated or uninitialized,
   releasing nothing and changing no state; when configured and not activated
   it releases the instantiation exactly once and leaves the instance
   uninitialized, from where setup can succeed again. *)
C4_CleanupContract ==
  [][ /\ last'.op = "cleanup"
        => IF activated \/ ~Configured
           THEN ret' = "critical" /\ calls' = <<>> /\ NothingChanged
           ELSE /\ insts[instance].status = "inactive"
                /\ calls' = <<Call("free", instance, 0, NoTarget)>>
                /\ insts'[instance].status = "freed"
                /\ instance' = 0 /\ activated' = FALSE
      /\ (last.op = "cleanup" /\ ret = "void" /\ last'.op = "setup"
            /\ HasCall(calls', "instantiate") /\ calls'[1].inst # 0)
        => ret' = "TRUE" /\ instance' = calls'[1].inst ]_vars

C4_Witness ==
  /\ last.op = "setup" /\ ret = "TRUE" /\ Configured
  /\ \E i \in 1..Len(insts) : insts[i].status = "freed"

(* C5: stop changes only the activation flag: when activated it invokes the
   deactivation hook once and clears the flag, leaving every control input,
   every control output and the handle as they were; when not activated it
   fails and changes nothing. *)
C5_StopFrame ==
  [][ last'.op = "stop"
        => IF activated
           THEN /\ calls' = <<Call("deactivate", instance, 0, NoTarget)>>
                /\ activated' = FALSE
                /\ control_in' = control_in
                /\ control_out' = control_out
                /\ instance' = instance
           ELSE ret' = "critical" /\ calls' = <<>> /\ NothingChanged ]_vars

C5_Witness ==
  /\ last.op = "stop" /\ ret = "void" /\ ~activated /\ Configured
  /\ \E i \in 1..Len(control_out) : control_out[i] # 0
  /\ \E i \in 1..Len(control_in) :
       control_in[i] # SetValue(klass.properties[i].value_type,
                                DefaultValue(klass.properties[i]))

(* C6: on every instantiation the activate and deactivate hooks alternate,
   starting with activate, and the instantiation is released only while it
   is not activated: activate is called only on an inactive instantiation,
   deactivate only on an active one, free only on an inactive one. *)
C6_HooksAlternate ==
  [][ \A k \in 1..Len(calls') :
        LET c == calls'[k] IN
        /\ c.op = "activate"   => insts[c.inst].status = "inactive"
        /\ c.op = "deactivate" => insts[c.inst].status = "active"
        /\ c.op = "free"       => insts[c.inst].status = "inactive" ]_vars

C6_Witness ==
  \E i \in 1..Len(insts) :
    insts[i].status = "freed" /\ insts[i].activations >= 2

(* C7: when slv2_plugin_instantiate returns no instance, setup returns
   failure, binds no control port and leaves the instance without a handle;
   a start that follows fails without invoking the activation hook. *)
InstantiateFailed(cs) ==
  Len(cs) > 0 /\ cs[1].op = "instantiate" /\ cs[1].inst = 0

C7_InstantiationFailure ==
  [][ /\ (last'.op = "setup" /\ InstantiateFailed(calls'))
        => /\ ret' = "FALSE"
           /\ ~HasCall(calls', "connect_port")
           /\ instance' = 0
           /\ insts' = insts
      /\ (last.op = "setup" /\ InstantiateFailed(calls) /\ last'.op = "start")
        => ret' = "FALSE" /\ calls' = <<>> /\ NothingChanged ]_vars

C7_Witness ==
  /\ last.op = "start" /\ ret = "FALSE" /\ ~Configured /\ ~activated
  /\ Len(insts) = 1 /\ insts[1].status = "inactive"

----------------------------------------------------------------------------
(* SpecClass: class construction over every plugin up to MaxPorts ports *)

Dirs    == {"in", "out"}
Kinds   == {"audio", "control", "other"}
Symbols == {"a", "b"}

(* the ports a plugin of SpecClass may declare; only control ports vary in
   their symbol *)
ClassPorts ==
  {PlainPort(d, k, g, s) :
     d \in Dirs, k \in Kinds, g \in {0} \cup Groups, s \in Symbols}
  \ {pt \in {PlainPort(d, k, g, "b") : d \in Dirs, k \in Kinds, g \in {0} \cup Groups} :
       pt.kind # "control"}

(* each group either declares its lv2:symbol or does not *)
GroupSymbols == {gs \in [Groups -> Opt({GName(g) : g \in Groups})] :
                   \A g \in Groups : gs[g] \in {None, Some(GName(g))}}

InitClass ==
  /\ mode = "class"
  /\ \E n \in 0..MaxPorts : \E ps \in [1..n -> ClassPorts] : \E gs \in GroupSymbols :
       plugin = [ports |-> ps, gsym |-> gs]
  /\ klass = NoClass
  /\ crashed = FALSE
  /\ pspec = NoPspec
  /\ LifeIdle
  /\ DiscIdle

(* gst_lv2_base_init, run by the type system when the class is first used *)
gst_lv2_base_init ==
  /\ mode = "class" /\ ~crashed
  /\ klass.stage = "none"
  /\ IF BaseInitDerefsNull(plugin)
     THEN crashed' = TRUE /\ klass' = klass
     ELSE crashed' = crashed /\ klass' = BaseInit(plugin)
  /\ UNCHANGED <<mode, plugin, pspec, lifeVars, discVars>>

(* gst_lv2_class_init, run right after gst_lv2_base_init *)
gst_lv2_class_init ==
  /\ mode = "class" /\ ~crashed
  /\ klass.stage = "base_init"
  /\ klass' = ClassInit(klass, plugin)
  /\ UNCHANGED <<mode, plugin, crashed, pspec, lifeVars, discVars>>

NextClass == gst_lv2_base_init \/ gst_lv2_class_init

SpecClass == InitClass /\ [][NextClass]_vars

(* number of declared ports of a direction and port class, grouped or not *)
CountPorts(p, d, k) ==
  Cardinality({i \in 1..Len(p.ports) : p.ports[i].dir = d /\ p.ports[i].kind = k})

(* C8: the category follows from the port shape, audio inputs and outputs
   counting every audio port of that direction, grouped or not: no audio
   input gives source; audio inputs without audio outputs give sink, or
   analyzer-sink when there is a control output; anything else filter/effect. *)
C8_CategoryByShape ==
  klass.stage # "none" =>
    klass.klass_tags =
      (IF CountPorts(plugin, "in", "audio") = 0 THEN "Source/Audio/LV2"
       ELSE IF CountPorts(plugin, "out", "audio") = 0
            THEN IF CountPorts(plugin, "out", "control") = 0
                 THEN "Sink/Audio/LV2" ELSE "Sink/Analyzer/Audio/LV2"
            ELSE "Filter/Effect/Audio/LV2")

----------------------------------------------------------------------------
(* SpecParam: gst_lv2_class_get_param_spec over every declared range *)

RangeVals == (-MaxRange)..MaxRange      \* declared values, in 1/Scale

InitParam ==
  /\ mode = "param"
  /\ \E d \in Dirs, t \in BOOLEAN, n \in BOOLEAN :
       \E df \in Opt(RangeVals), mn \in Opt(RangeVals), mx \in Opt(RangeVals) :
         plugin = [ports |-> <<Port(d, "control", 0, "a", t, n, df, mn, mx)>>,
                   gsym  |-> [g \in Groups |-> None]]
  /\ klass = NoClass
  /\ crashed = FALSE
  /\ pspec = NoPspec
  /\ LifeIdle
  /\ DiscIdle

gst_lv2_class_get_param_spec(portnum) ==
  /\ mode = "param"
  /\ pspec = NoPspec
  /\ pspec' = GetParamSpec(plugin, portnum)
  /\ UNCHANGED <<mode, plugin, klass, crashed, lifeVars, discVars>>

NextParam == \E portnum \in 0..(NumPorts(plugin) - 1) : gst_lv2_class_get_param_spec(portnum)

SpecParam == InitParam /\ [][NextParam]_vars

(* the declared range of the port, with the defaults the source assumes *)
DeclDef   == IF IsSome(plugin.ports[1].def) THEN plugin.ports[1].def[1] ELSE 0
DeclLower == IF IsSome(plugin.ports[1].min) THEN plugin.ports[1].min[1] ELSE 0
DeclUpper == IF IsSome(plugin.ports[1].max) THEN plugin.ports[1].max[1] ELSE 1 * Scale

NumericSpecBuilt ==
  mode = "param" /\ pspec # NoPspec /\ pspec.value_type # "G_TYPE_BOOLEAN"

(* C9, as claimed: for every integer or float control port and declared
   range, the spec has lower <= default <= upper, its default is the declared
   default, and a bound differs from the declared bound only when the
   declared default lay outside it, the bound then being the default. *)
C9_AsClaimed ==
  NumericSpecBuilt =>
    /\ pspec.minimum <= pspec.default /\ pspec.default <= pspec.maximum
    /\ pspec.default = DeclDef
    /\ pspec.minimum # DeclLower => (DeclDef < DeclLower /\ pspec.minimum = pspec.default)
    /\ pspec.maximum # DeclUpper => (DeclDef > DeclUpper /\ pspec.maximum = pspec.default)

(* what a declared gfloat becomes in a param spec of the port's kind *)
AsKind(v) == IF pspec.value_type = "G_TYPE_INT" THEN FloatToInt(v) ELSE v

(* C9, amended: lower <= default <= upper; the default is the declared
   default, truncated toward zero on an integer port, never clamped; a bound
   differs from the declared bound (truncated likewise on an integer port)
   only when the declared default lay outside it, the bound then being the
   default. *)
C9_WidenNotClamp ==
  NumericSpecBuilt =>
    /\ pspec.minimum <= pspec.default /\ pspec.default <= pspec.maximum
    /\ pspec.default = AsKind(DeclDef)
    /\ pspec.minimum # AsKind(DeclLower)
         => (DeclDef < DeclLower /\ pspec.minimum = pspec.default)
    /\ pspec.maximum # AsKind(DeclUpper)
         => (DeclDef > DeclUpper /\ pspec.maximum = pspec.default)

C9_Witness ==
  /\ NumericSpecBuilt
  /\ pspec.value_type = "G_TYPE_INT"
  /\ DeclDef > DeclUpper /\ DeclLower <= DeclUpper
  /\ DeclDef % Scale # 0
  /\ pspec.maximum = pspec.default /\ pspec.maximum # AsKind(DeclUpper)

----------------------------------------------------------------------------
(* SpecDisc: lv2_plugin_discover over every list of distinct plugin URIs *)

(* characters a plugin URI is made of here, and the characters g_strcanon keeps *)
UriChars   == {"a", "-", ":", "/"}
ValidChars == {"a", "-", "+"}

Uris == UNION {[1..n -> UriChars] : n \in 1..MaxUriLen}

(* g_strcanon (string, valid_chars, substitutor) *)
StrCanon(str, valid_chars, substitutor) ==
  [k \in 1..Len(str) |-> IF str[k] \in valid_chars THEN str[k] ELSE substitutor]

(* the type name lv2_plugin_discover builds from a plugin URI *)
TypeName(uri) == StrCanon(uri, ValidChars, "-")

(* g_type_from_name (type_name) != 0 *)
AlreadyRegistered_never(type_name) == FALSE
AlreadyRegistered(type_name) ==
  \E k \in 1..Len(types) : types[k].name = type_name

InitDisc ==
  /\ mode = "disc"
  /\ \E n \in 0..MaxPlugins : \E us \in [1..n -> Uris] :
       /\ \A i, j \in 1..n : i # j => us[i] # us[j]
       /\ uris = us
       /\ visits = [i \in 1..n |-> 0]
  /\ disc_i = 0
  /\ types = <<>>
  /\ elements = {}
  /\ plugin = NoPlugin
  /\ klass = NoClass
  /\ crashed = FALSE
  /\ pspec = NoPspec
  /\ LifeIdle

(* one iteration of the loop of lv2_plugin_discover; registered is the result
   of gst_element_register *)
DiscoverPlugin(registered) ==
  /\ mode = "disc" /\ ret = "none"
  /\ disc_i < Len(uris)
  /\ LET lv2plugin == disc_i + 1
         type_name == TypeName(uris[lv2plugin])
     IN  /\ visits' = [visits EXCEPT ![lv2plugin] = @ + 1]
         /\ IF AlreadyRegistered(type_name)
            THEN UNCHANGED <<types, elements>>
            ELSE /\ types' = Append(types, [name |-> type_name, plugin |-> lv2plugin])
                 /\ elements' = IF registered THEN elements \cup {type_name}
                                ELSE elements
  /\ disc_i' = disc_i + 1
  /\ UNCHANGED <<mode, plugin, klass, crashed, pspec, uris, lifeVars>>

(* the loop is over: return TRUE *)
DiscoverReturn ==
  /\ mode = "disc" /\ ret = "none"
  /\ ~(disc_i < Len(uris))
  /\ ret' = "TRUE"
  /\ UNCHANGED <<mode, plugin, klass, crashed, pspec, discVars, instance,
                 activated, control_in, control_out, insts, last, calls>>

NextDisc == (\E registered \in BOOLEAN : DiscoverPlugin(registered)) \/ DiscoverReturn

SpecDisc == InitDisc /\ [][NextDisc]_vars

(* the first plugin in scan order whose URI sanitizes to this name *)
FirstWith(type_name) ==
  CHOOSE i \in 1..Len(uris) :
    /\ TypeName(uris[i]) = type_name
    /\ \A k \in 1..(i - 1) : TypeName(uris[k]) # type_name

(* C10: throughout the scan every registered identifier belongs to the first
   plugin in scan order that sanitizes to it and is registered once; when
   discovery returns it returns success, every plugin was visited exactly
   once and every plugin's identifier is registered. *)
C10_FirstRegistrationWins ==
  mode = "disc" =>
    /\ \A k \in 1..Len(types) :
         /\ \E i \in 1..disc_i : TypeName(uris[i]) = types[k].name
         /\ types[k].plugin = FirstWith(types[k].name)
         /\ \A m \in 1..Len(types) : types[m].name = types[k].name => m = k
    /\ ret # "none" =>
         /\ ret = "TRUE"
         /\ \A i \in 1..Len(uris) : visits[i] = 1
         /\ \A i \in 1..Len(uris) : AlreadyRegistered(TypeName(uris[i]))

C10_Witness ==
  /\ mode = "disc" /\ ret = "TRUE"
  /\ Len(uris) = 3 /\ Len(types) = 2
  /\ TypeName(uris[1]) = TypeName(uris[3]) /\ uris[1] # uris[3]
  /\ types[1].plugin = 1 /\ types[2].plugin = 2

----------------------------------------------------------------------------
(* SpecProc: the processing path of one element, over every plugin of up to
   MaxProcPorts audio and control ports.  The framework configures the
   element once, starts it and then calls process any number of times. *)

(* the ports a plugin of SpecProc may declare: grouped or ungrouped audio
   ports and ungrouped control ports *)
ProcPorts ==
       {PlainPort(d, "audio", g, "a") : d \in Dirs, g \in {0} \cup Groups}
  \cup {PlainPort(d, "control", 0, "a") : d \in Dirs}

InitProc ==
  /\ mode = "life"
  /\ \E n \in 0..MaxProcPorts : \E ps \in [1..n -> ProcPorts] :
       plugin = [ports |-> ps, gsym |-> [g \in Groups |-> Some(GName(g))]]
  /\ klass = ClassInit(BaseInit(plugin), plugin)
  /\ instance = 0
  /\ activated = FALSE
  /\ control_in = [i \in 1..klass.num_control_in |->
                     SetValue(klass.properties[i].value_type,
                              DefaultValue(klass.properties[i]))]
  /\ control_out = [i \in 1..klass.num_control_out |-> 0]
  /\ insts = <<>>
  /\ last = NoLast /\ ret = "none" /\ calls = <<>>
  /\ crashed = FALSE
  /\ pspec = NoPspec
  /\ DiscIdle

(* gst_lv2_setup as GstSignalProcessor calls it: on an unconfigured element *)
ProcSetup ==
  /\ instance = 0
  /\ \E rate \in SampleRates : \E r \in InstantiateResults : gst_lv2_setup(rate, r)

(* gst_lv2_process as GstSignalProcessor calls it: on a started element *)
ProcProcess == activated /\ Process

NextProc == ProcSetup \/ Start \/ ProcProcess

SpecProc == InitProc /\ [][NextProc]_vars

(* a process call that went through its loops and returned *)
ProcessReturned == last'.op = "process" /\ ret' = "void"

(* position of port q among the ports of its direction and group, in index order *)
MemberPos(p, q) ==
  Cardinality({r \in 0..(q - 1) : /\ PortAt(p, r).dir = PortAt(p, q).dir
                                  /\ PortAt(p, r).group = PortAt(p, q).group})

(* C11: in every process call with frame count F, a grouped port that is the
   k-th member (0-indexed, in discovery order) of its group is bound at
   offset k*F of that group's pad buffer. *)
C11_GroupOffsets ==
  [][ ProcessReturned =>
        \A q \in 0..(NumPorts(plugin) - 1) :
          PortAt(plugin, q).group # 0 =>
            LET to == insts'[instance].conn[q] IN
            /\ to[1] = (IF PortAt(plugin, q).dir = "in" THEN "group_in" ELSE "group_out")
            /\ to[3] = MemberPos(plugin, q) * last'.arg
            /\ \E c \in 1..Len(calls') :
                 calls'[c] = Call("connect_port", instance, q, to) ]_vars

C11_Witness ==
  /\ last.op = "process" /\ ret = "void" /\ last.arg = 2
  /\ \E q \in 0..(NumPorts(plugin) - 1) :
       /\ PortAt(plugin, q).group # 0
       /\ MemberPos(plugin, q) = 2
       /\ insts[instance].conn[q][3] = 4

(* the place of a bucket in the binding order *)
BucketRank(bucket) ==
  IF bucket = "group_in" THEN 1
  ELSE IF bucket = "audio_in" THEN 2
  ELSE IF bucket = "group_out" THEN 3
  ELSE IF bucket = "audio_out" THEN 4
  ELSE 0

ConnectsOf(cs, q) ==
  {c \in 1..Len(cs) : cs[c].op = "connect_port" /\ cs[c].port = q}

InAudioBucket(p, q) == PortAt(p, q).group # 0 \/ PortAt(p, q).kind = "audio"
InControlBucket(p, q) == PortAt(p, q).group = 0 /\ PortAt(p, q).kind = "control"

(* C12: a process call binds in the order grouped inputs, ungrouped audio
   inputs, grouped outputs, ungrouped audio outputs, each port of these
   buckets exactly once; it runs the plugin exactly once, after all the
   bindings; it rebinds no port of the control buckets, whose bindings from
   setup stay in force. *)
C12_BucketOrder ==
  [][ ProcessReturned =>
        LET n == Len(calls') IN
        /\ n >= 1 /\ calls'[n] = Call("run", instance, last'.arg, NoTarget)
        /\ \A c \in 1..(n - 1) :
             /\ calls'[c].op = "connect_port"
             /\ BucketRank(calls'[c].to[1]) >= 1
        /\ \A c, d \in 1..(n - 1) :
             c < d => BucketRank(calls'[c].to[1]) <= BucketRank(calls'[d].to[1])
        /\ \A q \in 0..(NumPorts(plugin) - 1) :
             /\ InAudioBucket(plugin, q) => Cardinality(ConnectsOf(calls', q)) = 1
             /\ InControlBucket(plugin, q) =>
                  /\ ConnectsOf(calls', q) = {}
                  /\ insts'[instance].conn[q] = insts[instance].conn[q]
                  /\ insts'[instance].conn[q][1] =
                       (IF PortAt(plugin, q).dir = "in" THEN "control_in"
                        ELSE "control_out") ]_vars

C12_Witness ==
  /\ last.op = "process" /\ ret = "void" /\ Len(calls) = 5
  /\ \A r \in 1..4 : BucketRank(calls[r].to[1]) = r

----------------------------------------------------------------------------
(* Claims about the class descriptor (checked under SpecClass) *)

DescriptorBuilt == mode = "class" /\ klass.stage # "none"

(* the distinct group identifiers among the first n ports of direction d, in
   the order they are first met *)
RECURSIVE FirstGroupsUpTo(_, _, _)
FirstGroupsUpTo(p, d, n) ==
  IF n = 0 THEN <<>>
  ELSE LET prev == FirstGroupsUpTo(p, d, n - 1)
           port == p.ports[n]
       IN  IF /\ port.dir = d /\ port.group # 0
              /\ \A k \in 1..Len(prev) : prev[k] # port.group
           THEN Append(prev, port.group) ELSE prev

FirstGroups(p, d) == FirstGroupsUpTo(p, d, Len(p.ports))

(* number of declared ports of direction d in group g *)
GroupSize(p, d, g) ==
  Cardinality({i \in 1..Len(p.ports) : p.ports[i].dir = d /\ p.ports[i].group = g})

(* indices (0-based) of the ungrouped ports of a direction and port class *)
Ungrouped(p, d, k) ==
  {i \in 0..(Len(p.ports) - 1) :
     /\ PortAt(p, i).dir = d /\ PortAt(p, i).kind = k /\ PortAt(p, i).group = 0}

(* C13: per direction the descriptor has exactly one pad template per distinct
   group identifier, in first-encounter order, carrying the group's symbol,
   as many sub-channels as the group has member ports, and the sink
   direction for an input group, the source direction for an output group. *)
C13_GroupPadTemplates ==
  DescriptorBuilt =>
    LET gi == FirstGroups(plugin, "in")
        go == FirstGroups(plugin, "out")
        t  == klass.pad_templates
    IN  /\ Len(t) = Len(gi) + Len(go)
                    + Cardinality(Ungrouped(plugin, "in", "audio"))
                    + Cardinality(Ungrouped(plugin, "out", "audio"))
        /\ \A j \in 1..Len(gi) :
             /\ t[j].name = plugin.gsym[gi[j]]
             /\ t[j].direction = "SINK"
             /\ t[j].channels = GroupSize(plugin, "in", gi[j])
        /\ \A j \in 1..Len(go) :
             /\ t[Len(gi) + j].name = plugin.gsym[go[j]]
             /\ t[Len(gi) + j].direction = "SRC"
             /\ t[Len(gi) + j].channels = GroupSize(plugin, "out", go[j])

C13_Witness ==
  /\ DescriptorBuilt
  /\ FirstGroups(plugin, "in") = <<2, 1>>
  /\ GroupSize(plugin, "in", 2) = 2
  /\ Len(klass.pad_templates) = 2
  /\ klass.pad_templates[1].name = Some("out")
  /\ klass.pad_templates[1].channels = 2

(* indices (0-based) of the first n ports that are control ports of direction
   d, grouped or not, in index order *)
RECURSIVE ControlPortsUpTo(_, _, _)
ControlPortsUpTo(p, d, n) ==
  IF n = 0 THEN <<>>
  ELSE IF p.ports[n].dir = d /\ p.ports[n].kind = "control"
       THEN Append(ControlPortsUpTo(p, d, n - 1), n - 1)
       ELSE ControlPortsUpTo(p, d, n - 1)

ControlPorts(p, d) == ControlPortsUpTo(p, d, Len(p.ports))

ClassBuilt == mode = "class" /\ klass.stage = "class_init"

(* C14: the descriptor has exactly one parameter spec per control port of the
   plugin, the control inputs first and then the control outputs, each at
   the 1-based index of its position; a control port with a group annotation
   is a control port like any other. *)
C14_OneParamPerControlPort ==
  ClassBuilt =>
    LET ci == ControlPorts(plugin, "in")
        co == ControlPorts(plugin, "out")
    IN  /\ Len(klass.properties) = Len(ci) + Len(co)
        /\ \A i \in 1..Len(ci) :
             /\ i <= Len(klass.properties)
             /\ klass.properties[i] = GetParamSpec(plugin, ci[i])
        /\ \A i \in 1..Len(co) :
             /\ Len(ci) + i <= Len(klass.properties)
             /\ klass.properties[Len(ci) + i] = GetParamSpec(plugin, co[i])

(* C15: group pad slots and ungrouped audio pad slots are independent
   sequences per direction, each 0,1,2,... in first-encounter order, and the
   slot recorded at classification is the slot of the pad template. *)
C15_IndependentPadSlots ==
  DescriptorBuilt =>
    /\ \A j \in 1..Len(klass.in_groups)  : klass.in_groups[j].pad = j - 1
    /\ \A j \in 1..Len(klass.out_groups) : klass.out_groups[j].pad = j - 1
    /\ \A j \in 1..Len(klass.audio_in_ports)  : klass.audio_in_ports[j].pad = j - 1
    /\ \A j \in 1..Len(klass.audio_out_ports) : klass.audio_out_ports[j].pad = j - 1
    /\ \A j \in 1..Len(klass.in_groups) :
         klass.pad_templates[j].index = klass.in_groups[j].pad
    /\ \A j \in 1..Len(klass.audio_in_ports) :
         klass.pad_templates[Len(klass.in_groups) + Len(klass.out_groups) + j].index
           = klass.audio_in_ports[j].pad

----------------------------------------------------------------------------
(* Claims about the property setter (checked under Spec) *)

(* C16: setting a parameter by its 1-based index is a caller error when the
   index is 0, addresses a control output or exceeds the number of
   parameters: no control value changes.  For an index i of a control input
   the call writes only control-input slot i-1. *)
C16_SetPropertyIndex ==
  [][ last'.op = "set_property"
        => LET i == last'.arg IN
           IF i = 0 \/ i > klass.num_control_in
           THEN /\ ret' = "critical"
                /\ control_in' = control_in
                /\ control_out' = control_out
           ELSE /\ ret' = "void"
                /\ Len(control_in') = Len(control_in)
                /\ \A k \in 1..Len(control_in) :
                     k # i => control_in'[k] = control_in[k]
                /\ control_out' = control_out ]_vars

C16_Witness ==
  /\ mode = "life" /\ last.op = "set_property" /\ ret = "critical"
  /\ last.arg = klass.num_control_in + 1
  /\ last.arg <= Len(klass.properties)
  /\ \E i \in 1..Len(control_in) :
       control_in[i] # SetValue(klass.properties[i].value_type,
                                DefaultValue(klass.properties[i]))

----------------------------------------------------------------------------
(* Further claims about the class descriptor (checked under SpecClass) *)

(* the plugin without its port of 0-based index r *)
RemovePort(p, r) ==
  [p EXCEPT !.ports = SubSeq(@, 1, r) \o SubSeq(@, r + 2, Len(@))]

(* a port descriptor as it reads once port r is no longer declared *)
Renumber(desc, r) ==
  [desc EXCEPT !.index = IF @ > r THEN @ - 1 ELSE @]

RenumberBucket(bucket, r) ==
  [i \in 1..Len(bucket) |-> Renumber(bucket[i], r)]

RenumberGroups(groups, r) ==
  [i \in 1..Len(groups) |->
     [groups[i] EXCEPT !.ports = RenumberBucket(@, r)]]

Unsupported(p, r) ==
  /\ PortAt(p, r).group = 0
  /\ PortAt(p, r).kind \notin {"audio", "control"}

InBucket(bucket, r) == \E i \in 1..Len(bucket) : bucket[i].index = r

(* C17: an ungrouped port that is neither audio nor control is dropped
   without aborting classification: it is in no bucket, and the buckets,
   positions, pad slots, pad templates and parameter specs of the descriptor
   are those of the plugin without that port (port indices renumbered). *)
C17_UnsupportedPortDropped ==
  DescriptorBuilt =>
    \A r \in 0..(NumPorts(plugin) - 1) :
      Unsupported(plugin, r) =>
        LET q == RemovePort(plugin, r)
            k == BaseInit(q)
        IN  /\ ~InBucket(klass.audio_in_ports, r)
            /\ ~InBucket(klass.audio_out_ports, r)
            /\ ~InBucket(klass.control_in_ports, r)
            /\ ~InBucket(klass.control_out_ports, r)
            /\ RenumberGroups(klass.in_groups, r) = k.in_groups
            /\ RenumberGroups(klass.out_groups, r) = k.out_groups
            /\ RenumberBucket(klass.audio_in_ports, r) = k.audio_in_ports
            /\ RenumberBucket(klass.audio_out_ports, r) = k.audio_out_ports
            /\ RenumberBucket(klass.control_in_ports, r) = k.control_in_ports
            /\ RenumberBucket(klass.control_out_ports, r) = k.control_out_ports
            /\ klass.pad_templates = k.pad_templates
            /\ klass.stage = "class_init"
                 => klass.properties = ClassInit(k, q).properties

C17_Witness ==
  /\ ClassBuilt
  /\ \E r \in 0..(NumPorts(plugin) - 1) :
       /\ Unsupported(plugin, r)
       /\ \E i \in 1..Len(klass.audio_in_ports) :
            klass.audio_in_ports[i].index > r
       /\ \E i \in 1..Len(klass.control_in_ports) :
            klass.control_in_ports[i].index > r

(* C19: parameter names are unique within a descriptor: no descriptor is
   built with two parameter specs under the same name. *)
C19_ParamNamesUnique ==
  ClassBuilt =>
    \A i, j \in 1..Len(klass.properties) :
      i # j => klass.properties[i].name # klass.properties[j].name

(* the pad template added for the j-th ungrouped audio port of a direction *)
AudioInTemplate(k, j) ==
  k.pad_templates[k.num_group_in + k.num_group_out + j]

AudioOutTemplate(k, j) ==
  k.pad_templates[k.num_group_in + k.num_group_out + k.num_audio_in + j]

(* C20: every pad template's direction matches its port's direction: an
   ungrouped audio input yields a sink template, an ungrouped audio output a
   source template. *)
C20_TemplateDirection ==
  DescriptorBuilt =>
    /\ \A j \in 1..klass.num_audio_in :
         AudioInTemplate(klass, j).direction = "SINK"
    /\ \A j \in 1..klass.num_audio_out :
         AudioOutTemplate(klass, j).direction = "SRC"

----------------------------------------------------------------------------
(* Claims about the property accessors and the instance state (checked
   under Spec) *)

(* C21: parameter set/get round trip: a get of parameter i right after an
   accepted set of parameter i to v returns v. *)
C21_SetGetRoundTrip ==
  [][ ( /\ last.op = "set_property" /\ ret = "void"
        /\ last'.op = "get_property" /\ last'.arg = last.arg )
        => last'.value = last.value ]_vars

(* C22: in every reachable state an instance whose activation flag is set
   has a non-NULL instance handle: the element is uninitialized (no handle,
   not activated), configured (handle, not activated) or activated (handle,
   activated). *)
C22_ActivatedHasHandle ==
  mode = "life" =>
    \/ instance = 0 /\ activated = FALSE
    \/ instance # 0 /\ activated = FALSE
    \/ instance # 0 /\ activated = TRUE

C22_Witness ==
  /\ mode = "life" /\ activated = TRUE /\ instance # 0
  /\ last.op = "setup" /\ ret = "FALSE"
  /\ \E i \in 1..Len(insts) : insts[i].status = "freed"

====
